---- MODULE Spec2Model ----
(***************************************************************************)
(* State-machine model of the single-page application:                     *)
(*   - AppContent (session observer + gated routes),                       *)
(*   - DocumentManager (list / create / update / delete / summarize).      *)
(* React state cells are variables; every async handler is split at its    *)
(* awaits: the handler invocation captures the values of the render it was *)
(* created in (its closure), the backend processes the request, and the    *)
(* continuation after the await applies the setters.                       *)
(***************************************************************************)
EXTENDS Integers, Sequences, FiniteSets

VARIABLES
    \* ---- AppContent ----
    appPhase,        \* "init" (rendered, effect not run) | "mounted" | "unmounted"
    user,            \* useState<User | null>
    session,         \* useState<Session | null>
    appLoading,      \* AppContent's isLoading
    subscribed,      \* the onAuthStateChange subscription is registered
    unsubCount,      \* number of subscription.unsubscribe() calls
    authSession,     \* the session held by the auth service
    authEvents,      \* (event, session) notifications not yet handled by the listener
    sessionPromise,  \* the getSession() promise: [st, val]
    authSteps,       \* number of authentication-state transitions so far
    \* ---- DocumentManager ----
    teamId,          \* prop
    dmMounted,       \* the mount effect has run
    documents,       \* useState<Document[]>
    integrations,    \* useState<any[]>
    isLoading,       \* DocumentManager's isLoading
    editingDoc,      \* useState<Document | null>
    newDocTitle,
    newDocContent,
    isCreateDialogOpen,
    isSummarizing,   \* useState<string | null>
    toasts,          \* notifications shown so far
    consoleErrors,   \* console.error lines written so far
    calls,           \* load/create/update/delete invocations suspended at an await
    sumCalls,        \* generateSummary invocations suspended at an await
    nextCall,        \* number of handler invocations so far
    lastHandler,     \* name of the handler invoked last
    teamChanges,     \* number of teamId prop changes so far
    keystrokes,      \* number of input change events so far
    \* ---- backend ----
    dbDocs,          \* rows of table "documents"
    dbClock,         \* backend time of the last write
    callerEmail,     \* email of the signed-in account at the auth service
    subscriptionActive, \* what check-subscription reports for that account
    remoteLog,       \* remote calls issued, per handler invocation
    remoteFailures   \* remote calls that failed, with the error message

appVars == <<appPhase, user, session, appLoading, subscribed, unsubCount,
             authSession, authEvents, sessionPromise, authSteps>>
dmVars  == <<teamId, dmMounted, documents, integrations, isLoading, editingDoc,
             newDocTitle, newDocContent, isCreateDialogOpen, isSummarizing,
             toasts, consoleErrors, calls, sumCalls, nextCall, lastHandler,
             teamChanges, keystrokes>>
dbVars  == <<dbDocs, dbClock, callerEmail, subscriptionActive, remoteLog,
             remoteFailures>>
vars    == <<appVars, dmVars, dbVars>>

NULL == "null"

\* ---- bounds of the model ----
MaxAuthSteps == 3      \* authentication-state transitions in a run
MaxToken == 2          \* token refreshes of one session
MaxCalls == 2          \* user-triggered handler invocations of DocumentManager in a run
MaxTeamChanges == 1    \* changes of the teamId prop in a run
MaxKeystrokes == 2     \* input change events in a run

(***************************************************************************)
(* AppContent                                                              *)
(***************************************************************************)
Users == {"u1", "u2"}
Sessions == [user : Users, token : 1..(MaxToken + 1)]
NoSession == [user |-> NULL, token |-> 0]      \* the null session

\* session?.user ?? null
UserOf(s) == IF s = NoSession THEN NULL ELSE s.user

\* useEffect body: register the listener FIRST, THEN request the session once.
MountEffect ==
    /\ appPhase = "init"
    /\ appPhase' = "mounted"
    /\ subscribed' = TRUE
    /\ sessionPromise' = [st |-> "pending", val |-> NoSession]
    /\ UNCHANGED <<user, session, appLoading, unsubCount, authSession,
                   authEvents, authSteps,
                   dmVars, dbVars>>

\* The auth service changes state and notifies the registered listener.
Notify(s) ==
    /\ authSteps < MaxAuthSteps
    /\ authSteps' = authSteps + 1
    /\ authSession' = s
    /\ authEvents' = IF subscribed THEN Append(authEvents, s) ELSE authEvents
    /\ UNCHANGED <<appPhase, user, session, appLoading, subscribed, unsubCount,
                   sessionPromise,
                   dmVars, dbVars>>

SignIn == \E u \in Users :
    /\ authSession = NoSession
    /\ Notify([user |-> u, token |-> 1])

SignOut ==
    /\ authSession # NoSession
    /\ Notify(NoSession)

TokenRefresh ==
    /\ authSession # NoSession
    /\ authSession.token <= MaxToken
    /\ Notify([authSession EXCEPT !.token = @ + 1])

\* A callback that leaves the loading flag alone.
ApplySessionKeepLoading(s) ==
    /\ session' = s
    /\ user' = UserOf(s)
    /\ UNCHANGED appLoading

\* The three setters of a callback (listener or getSession continuation).
ApplySession(s) ==
    /\ session' = s
    /\ user' = UserOf(s)
    /\ appLoading' = FALSE

\* onAuthStateChange callback, called for the oldest pending notification.
AuthListener ==
    /\ subscribed
    /\ authEvents # <<>>
    /\ ApplySession(Head(authEvents))
    /\ authEvents' = Tail(authEvents)
    /\ UNCHANGED <<appPhase, subscribed, unsubCount, authSession,
                   sessionPromise, authSteps,
                   dmVars, dbVars>>

\* supabase.auth.getSession() reads the current session of the service ...
GetSessionRead ==
    /\ sessionPromise.st = "pending"
    /\ sessionPromise' = [st |-> "read", val |-> authSession]
    /\ UNCHANGED <<appPhase, user, session, appLoading, subscribed, unsubCount,
                   authSession, authEvents, authSteps,
                   dmVars, dbVars>>

\* ... or the identity service errors and the promise rejects: there is no
\* .catch, so no callback runs.
GetSessionReject ==
    /\ sessionPromise.st = "pending"
    /\ sessionPromise' = [st |-> "rejected", val |-> NoSession]
    /\ UNCHANGED <<appPhase, user, session, appLoading, subscribed, unsubCount,
                   authSession, authEvents, authSteps,
                   dmVars, dbVars>>

\* .then(({ data: { session } }) => ...): runs whether or not the component
\* is still mounted (the effect's cleanup does not cancel it).
GetSessionThen ==
    /\ sessionPromise.st = "read"
    /\ ApplySession(sessionPromise.val)
    /\ sessionPromise' = [st |-> "done", val |-> sessionPromise.val]
    /\ UNCHANGED <<appPhase, subscribed, unsubCount, authSession, authEvents,
                   authSteps,
                   dmVars, dbVars>>

\* Effect cleanup: () => subscription.unsubscribe()
Unmount ==
    /\ appPhase = "mounted"
    /\ appPhase' = "unmounted"
    /\ subscribed' = FALSE
    /\ unsubCount' = unsubCount + 1
    /\ authEvents' = <<>>
    /\ UNCHANGED <<user, session, appLoading, authSession, sessionPromise,
                   authSteps,
                   dmVars, dbVars>>

GatedPaths == {"/dashboard", "/documents", "/chat", "/settings"}
Paths == GatedPaths \cup {"/", "/auth", "/pricing", "/features", "/about",
          "/team-invite", "/integrations", "/integration/:name", "/api",
          "/security", "/contact", "/privacy", "/terms", "/success", "*"}

GatedPage(p) ==
    CASE p = "/dashboard" -> "Dashboard"
      [] p = "/documents" -> "DocumentsPage"
      [] p = "/chat"      -> "ChatPage"
      [] p = "/settings"  -> "Settings"

PublicPage(p) ==
    CASE p = "/pricing" -> "Pricing"
      [] p = "/features" -> "Features"
      [] p = "/about" -> "About"
      [] p = "/team-invite" -> "TeamInvite"
      [] p = "/integrations" -> "Integrations"
      [] p = "/integration/:name" -> "IntegrationDetail"
      [] p = "/api" -> "API"
      [] p = "/security" -> "Security"
      [] p = "/contact" -> "Contact"
      [] p = "/privacy" -> "Privacy"
      [] p = "/terms" -> "Terms"
      [] p = "/success" -> "Success"
      [] OTHER -> "NotFound"

\* A route table in which /settings lost its guard.
RouteElementOpenSettings(p, u) ==
    CASE p = "/" -> IF u # NULL THEN "Dashboard" ELSE "Landing"
      [] p = "/auth" -> IF u # NULL THEN "Dashboard" ELSE "AuthPage"
      [] p = "/settings" -> "Settings"
      [] p \in GatedPaths \ {"/settings"} ->
            IF u # NULL THEN GatedPage(p) ELSE "AuthPage"
      [] OTHER -> PublicPage(p)

\* <Route path=p element={...} />
RouteElement(p, u) ==
    CASE p = "/" -> IF u # NULL THEN "Dashboard" ELSE "Landing"
      [] p = "/auth" -> IF u # NULL THEN "Dashboard" ELSE "AuthPage"
      [] p \in GatedPaths -> IF u # NULL THEN GatedPage(p) ELSE "AuthPage"
      [] OTHER -> PublicPage(p)

\* What AppContent renders for path p in the current state.
Rendered(p) ==
    IF appLoading THEN "LoadingSpinner" ELSE RouteElement(p, user)

NextApp ==
    \/ MountEffect
    \/ SignIn
    \/ SignOut
    \/ TokenRefresh
    \/ AuthListener
    \/ GetSessionRead
    \/ GetSessionReject
    \/ GetSessionThen
    \/ Unmount

(***************************************************************************)
(* Backend tables and values                                               *)
(***************************************************************************)
Teams == {"t1", "t2"}
NoTeam == ""                          \* a falsy teamId
Titles == {<<>>, <<" ">>, <<"a", " ">>}
Contents == {"", "x"}
Errors == {"timeout"}     \* error.message of a failed remote call
\* A filter that lets every type of the table through.
AllowedIntegrationTypesWithSlack == {"google_drive", "notion", "github", "slack"}
AllowedIntegrationTypes == {"google_drive", "notion", "github"}

NoDoc == [id |-> 0, title |-> <<>>, content |-> "", team_id |-> NoTeam,
          owner_id |-> NULL, updated_at |-> 0, is_integration |-> FALSE]

\* Rows of "documents" present when the component mounts.
InitialDocs ==
    { [id |-> 1, title |-> <<"a", " ">>, content |-> "x", team_id |-> "t1",
       owner_id |-> "u1", updated_at |-> 1, is_integration |-> FALSE],
      [id |-> 2, title |-> <<"a", " ">>, content |-> "", team_id |-> "t1",
       owner_id |-> "u1", updated_at |-> 2, is_integration |-> FALSE],
      [id |-> 3, title |-> <<"a", " ">>, content |-> "", team_id |-> "t1",
       owner_id |-> "u1", updated_at |-> 3, is_integration |-> TRUE],
      [id |-> 4, title |-> <<"a", " ">>, content |-> "x", team_id |-> "t2",
       owner_id |-> "u2", updated_at |-> 4, is_integration |-> FALSE] }

\* Rows of "integrations" (read-only for this component).
DbIntegrations ==
    { [id |-> 1, team_id |-> "t1", integration_type |-> "notion"],
      [id |-> 2, team_id |-> "t1", integration_type |-> "slack"],
      [id |-> 3, team_id |-> "t2", integration_type |-> "github"],
      [id |-> 4, team_id |-> "t1", integration_type |-> "github"] }

OwnerEmails == {"owner@x"}            \* rows of "owner_privileges"
Emails == {"owner@x", "member@x"}
CurrentUserId == "u1"                 \* user.id of the prop

\* .order('updated_at', { ascending: false })
RECURSIVE OrderByUpdatedDesc(_)
OrderByUpdatedDesc(S) ==
    IF S = {} THEN <<>>
    ELSE LET m == CHOOSE d \in S :
                    \A e \in S : <<e.updated_at, e.id>> = <<d.updated_at, d.id>>
                                 \/ e.updated_at < d.updated_at
                                 \/ (e.updated_at = d.updated_at /\ e.id < d.id)
         IN <<m>> \o OrderByUpdatedDesc(S \ {m})

RECURSIVE OrderById(_)
OrderById(S) ==
    IF S = {} THEN <<>>
    ELSE LET m == CHOOSE d \in S : \A e \in S : d.id <= e.id
         IN <<m>> \o OrderById(S \ {m})

\* .from('documents').select('*').eq('team_id', teamId).order(...)
SelectDocuments(t) == OrderByUpdatedDesc({d \in dbDocs : d.team_id = t})

\* .from('integrations').select('*').eq('team_id', teamId)
SelectIntegrations(t) == OrderById({i \in DbIntegrations : i.team_id = t})

(***************************************************************************)
(* JavaScript helpers                                                      *)
(***************************************************************************)
IsSpace(ch) == ch = " "

RECURSIVE TrimStart(_)
TrimStart(s) ==
    IF s # <<>> /\ IsSpace(Head(s)) THEN TrimStart(Tail(s)) ELSE s

RECURSIVE TrimEnd(_)
TrimEnd(s) ==
    IF s # <<>> /\ IsSpace(s[Len(s)]) THEN TrimEnd(SubSeq(s, 1, Len(s) - 1)) ELSE s

\* String.prototype.trim
Trim(s) == TrimEnd(TrimStart(s))

\* !str : the empty string is the only falsy string
Falsy(s) == Len(s) = 0

Range(s) == {s[i] : i \in DOMAIN s}
Ids(s) == {s[i].id : i \in DOMAIN s}

Toast(n, title, description, variant) ==
    [n |-> n, title |-> title, description |-> description, variant |-> variant]

(***************************************************************************)
(* DocumentManager: closures and remote calls                              *)
(***************************************************************************)
\* Number of handler invocations made by the effect so far.
EffectInvocations == 2 * ((IF dmMounted THEN 1 ELSE 0) + teamChanges)
\* Number of user-triggered handler invocations so far.
UserInvocations == nextCall - EffectInvocations

\* The view below the spinner is rendered (line 219).
ViewRendered == dmMounted /\ ~isLoading

\* A handler invocation suspended at its await. docs and team are the values
\* of `documents` and `teamId` in the render whose handler was invoked.
NewCall(n, op, arg, t) ==
    [n |-> n, op |-> op, st |-> "sent", arg |-> arg, docs |-> documents,
     team |-> t, data |-> <<>>, err |-> ""]

Remote(n, fn) == [n |-> n, fn |-> fn]
Failure(n, fn, msg) == [n |-> n, fn |-> fn, msg |-> msg]

\* if (!teamId) return;
TeamIdMissing(t) == t = NoTeam

\* useEffect(() => { loadDocuments(); loadIntegrations(); }, [teamId]) in a
\* render whose teamId is t.
RunEffect(t) ==
    /\ nextCall' = nextCall + 2
    /\ lastHandler' = "loadIntegrations"
    /\ IF TeamIdMissing(t)
         THEN UNCHANGED <<calls, remoteLog>>
         ELSE /\ calls' = calls \cup
                    { NewCall(nextCall + 1, "loadDocuments", NoDoc, t),
                      NewCall(nextCall + 2, "loadIntegrations", NoDoc, t) }
              /\ remoteLog' = remoteLog \cup
                    { Remote(nextCall + 1, "documents.select"),
                      Remote(nextCall + 2, "integrations.select") }

\* First render followed by its effect.
DMMount ==
    /\ ~dmMounted
    /\ dmMounted' = TRUE
    /\ RunEffect(teamId)
    /\ UNCHANGED <<appVars, keystrokes, teamId, documents, integrations, isLoading,
                   editingDoc, newDocTitle, newDocContent, isCreateDialogOpen,
                   isSummarizing, toasts, consoleErrors, sumCalls, teamChanges,
                   dbDocs, dbClock, callerEmail, subscriptionActive,
                   remoteFailures>>

\* The parent re-renders with another teamId; the effect runs again.
TeamIdChange == \E t \in (Teams \cup {NoTeam}) \ {teamId} :
    /\ dmMounted
    /\ teamChanges < MaxTeamChanges
    /\ teamChanges' = teamChanges + 1
    /\ teamId' = t
    /\ RunEffect(t)
    /\ UNCHANGED <<appVars, keystrokes, dmMounted, documents, integrations, isLoading,
                   editingDoc, newDocTitle, newDocContent, isCreateDialogOpen,
                   isSummarizing, toasts, consoleErrors, sumCalls, dbDocs,
                   dbClock, callerEmail, subscriptionActive, remoteFailures>>

Resolve(c, data) == (calls \ {c}) \cup {[c EXCEPT !.st = "ok", !.data = data]}
Reject(c, msg) == (calls \ {c}) \cup {[c EXCEPT !.st = "err", !.err = msg]}
Pending(op) == {c \in calls : c.op = op /\ c.st = "sent"}
Settled(op) == {c \in calls : c.op = op /\ c.st # "sent"}

\* ---- loadDocuments (lines 41-62) ----
SelectDocumentsOk == \E c \in Pending("loadDocuments") :
    /\ calls' = Resolve(c, SelectDocuments(c.team))
    /\ UNCHANGED <<appVars, keystrokes, teamId, dmMounted, documents, integrations,
                   isLoading, editingDoc, newDocTitle, newDocContent,
                   isCreateDialogOpen, isSummarizing, toasts, consoleErrors,
                   sumCalls, nextCall, lastHandler, teamChanges, dbDocs,
                   dbClock, callerEmail, subscriptionActive, remoteLog,
                   remoteFailures>>

SelectDocumentsFail == \E c \in Pending("loadDocuments") : \E e \in Errors :
    /\ calls' = Reject(c, e)
    /\ remoteFailures' = remoteFailures \cup {Failure(c.n, "documents.select", e)}
    /\ UNCHANGED <<appVars, keystrokes, teamId, dmMounted, documents, integrations,
                   isLoading, editingDoc, newDocTitle, newDocContent,
                   isCreateDialogOpen, isSummarizing, toasts, consoleErrors,
                   sumCalls, nextCall, lastHandler, teamChanges, dbDocs,
                   dbClock, callerEmail, subscriptionActive, remoteLog>>

\* What the failure branch of loadDocuments does to the list: nothing.
DocumentsAfterFailedLoad(docs) == docs

LoadDocumentsSettle == \E c \in Settled("loadDocuments") :
    /\ calls' = calls \ {c}
    /\ IF c.st = "ok"
         THEN /\ documents' = c.data
              /\ UNCHANGED toasts
         ELSE /\ documents' = DocumentsAfterFailedLoad(documents)
              /\ toasts' = toasts \cup
                    {Toast(c.n, "Error loading documents", c.err, "destructive")}
    /\ isLoading' = FALSE
    /\ UNCHANGED <<appVars, keystrokes, teamId, dmMounted, integrations, editingDoc,
                   newDocTitle, newDocContent, isCreateDialogOpen,
                   isSummarizing, consoleErrors, sumCalls, nextCall,
                   lastHandler, teamChanges, dbDocs, dbClock, callerEmail,
                   subscriptionActive, remoteLog, remoteFailures>>

\* ---- loadIntegrations (lines 64-78) ----
SelectIntegrationsOk == \E c \in Pending("loadIntegrations") :
    /\ calls' = Resolve(c, SelectIntegrations(c.team))
    /\ UNCHANGED <<appVars, keystrokes, teamId, dmMounted, documents, integrations,
                   isLoading, editingDoc, newDocTitle, newDocContent,
                   isCreateDialogOpen, isSummarizing, toasts, consoleErrors,
                   sumCalls, nextCall, lastHandler, teamChanges, dbDocs,
                   dbClock, callerEmail, subscriptionActive, remoteLog,
                   remoteFailures>>

SelectIntegrationsFail == \E c \in Pending("loadIntegrations") : \E e \in Errors :
    /\ calls' = Reject(c, e)
    /\ remoteFailures' = remoteFailures \cup {Failure(c.n, "integrations.select", e)}
    /\ UNCHANGED <<appVars, keystrokes, teamId, dmMounted, documents, integrations,
                   isLoading, editingDoc, newDocTitle, newDocContent,
                   isCreateDialogOpen, isSummarizing, toasts, consoleErrors,
                   sumCalls, nextCall, lastHandler, teamChanges, dbDocs,
                   dbClock, callerEmail, subscriptionActive, remoteLog>>

LoadIntegrationsSettle == \E c \in Settled("loadIntegrations") :
    /\ calls' = calls \ {c}
    /\ IF c.st = "ok"
         THEN /\ integrations' = c.data
              /\ UNCHANGED consoleErrors
         ELSE /\ consoleErrors' = consoleErrors \cup {c.err}
              /\ UNCHANGED integrations
    /\ UNCHANGED <<appVars, keystrokes, teamId, dmMounted, documents, isLoading,
                   editingDoc, newDocTitle, newDocContent, isCreateDialogOpen,
                   isSummarizing, toasts, sumCalls, nextCall, lastHandler,
                   teamChanges, dbDocs, dbClock, callerEmail,
                   subscriptionActive, remoteLog, remoteFailures>>

\* ---- the integrations tab (lines 427-449) ----
\* The IntegratedDocument cards, in the order they are rendered.
IntegrationCards ==
    IF ~ViewRendered \/ Len(integrations) = 0
      THEN <<>>
      ELSE SelectSeq(integrations,
                     LAMBDA i : i.integration_type \in AllowedIntegrationTypes)

\* ---- the create dialog (lines 268-312) ----
OpenCreateDialog ==
    /\ ViewRendered
    /\ ~isCreateDialogOpen
    /\ isCreateDialogOpen' = TRUE
    /\ UNCHANGED <<appVars, keystrokes, teamId, dmMounted, documents, integrations,
                   isLoading, editingDoc, newDocTitle, newDocContent,
                   isSummarizing, toasts, consoleErrors, calls, sumCalls,
                   nextCall, lastHandler, teamChanges, dbDocs, dbClock,
                   callerEmail, subscriptionActive, remoteLog, remoteFailures>>

CloseCreateDialog ==
    /\ ViewRendered
    /\ isCreateDialogOpen
    /\ isCreateDialogOpen' = FALSE
    /\ UNCHANGED <<appVars, keystrokes, teamId, dmMounted, documents, integrations,
                   isLoading, editingDoc, newDocTitle, newDocContent,
                   isSummarizing, toasts, consoleErrors, calls, sumCalls,
                   nextCall, lastHandler, teamChanges, dbDocs, dbClock,
                   callerEmail, subscriptionActive, remoteLog, remoteFailures>>

SetNewDocTitle == \E t \in Titles \ {newDocTitle} :
    /\ ViewRendered
    /\ isCreateDialogOpen
    /\ newDocTitle' = t
    /\ keystrokes < MaxKeystrokes
    /\ keystrokes' = keystrokes + 1
    /\ UNCHANGED <<appVars, teamId, dmMounted, documents, integrations,
                   isLoading, editingDoc, newDocContent, isCreateDialogOpen,
                   isSummarizing, toasts, consoleErrors, calls, sumCalls,
                   nextCall, lastHandler, teamChanges, dbDocs, dbClock,
                   callerEmail, subscriptionActive, remoteLog, remoteFailures>>

SetNewDocContent == \E x \in Contents \ {newDocContent} :
    /\ ViewRendered
    /\ isCreateDialogOpen
    /\ newDocContent' = x
    /\ keystrokes < MaxKeystrokes
    /\ keystrokes' = keystrokes + 1
    /\ UNCHANGED <<appVars, teamId, dmMounted, documents, integrations,
                   isLoading, editingDoc, newDocTitle, isCreateDialogOpen,
                   isSummarizing, toasts, consoleErrors, calls, sumCalls,
                   nextCall, lastHandler, teamChanges, dbDocs, dbClock,
                   callerEmail, subscriptionActive, remoteLog, remoteFailures>>

\* ---- createDocument (lines 80-112) ----
\* A guard that forgets to trim.
TitleMissingNoTrim(t) == Falsy(t)

\* !newDocTitle.trim()
TitleMissing(t) == Falsy(Trim(t))

\* disabled={!newDocTitle.trim()}
CreateButtonDisabled == TitleMissing(newDocTitle)

\* The handler, called while the dialog is rendered. It is modelled as
\* callable also when the button is disabled, which is the case the guard
\* of line 81 is there for.
CreateDocument ==
    /\ ViewRendered
    /\ isCreateDialogOpen
    /\ UserInvocations < MaxCalls
    /\ nextCall' = nextCall + 1
    /\ lastHandler' = "createDocument"
    /\ IF TitleMissing(newDocTitle)
         THEN UNCHANGED <<calls, remoteLog>>
         ELSE /\ calls' = calls \cup
                    { NewCall(nextCall + 1, "createDocument",
                              [NoDoc EXCEPT !.title = newDocTitle,
                                            !.content = newDocContent,
                                            !.team_id = teamId,
                                            !.owner_id = CurrentUserId],
                              teamId) }
              /\ remoteLog' = remoteLog \cup {Remote(nextCall + 1, "documents.insert")}
    /\ UNCHANGED <<appVars, keystrokes, teamId, dmMounted, documents, integrations,
                   isLoading, editingDoc, newDocTitle, newDocContent,
                   isCreateDialogOpen, isSummarizing, toasts, consoleErrors,
                   sumCalls, teamChanges, dbDocs, dbClock, callerEmail,
                   subscriptionActive, remoteFailures>>

\* The identifier the backend gives the row inserted for call n.
NewId(n) == Cardinality(InitialDocs) + n

InsertOk == \E c \in Pending("createDocument") :
    /\ c.team # NoTeam
    /\ LET row == [c.arg EXCEPT !.id = NewId(c.n), !.updated_at = dbClock + 1]
       IN /\ dbDocs' = dbDocs \cup {row}
          /\ calls' = Resolve(c, <<row>>)
    /\ dbClock' = dbClock + 1
    /\ UNCHANGED <<appVars, keystrokes, teamId, dmMounted, documents, integrations,
                   isLoading, editingDoc, newDocTitle, newDocContent,
                   isCreateDialogOpen, isSummarizing, toasts, consoleErrors,
                   sumCalls, nextCall, lastHandler, teamChanges, callerEmail,
                   subscriptionActive, remoteLog, remoteFailures>>

InsertFail == \E c \in Pending("createDocument") : \E e \in Errors :
    /\ calls' = Reject(c, e)
    /\ remoteFailures' = remoteFailures \cup {Failure(c.n, "documents.insert", e)}
    /\ UNCHANGED <<appVars, keystrokes, teamId, dmMounted, documents, integrations,
                   isLoading, editingDoc, newDocTitle, newDocContent,
                   isCreateDialogOpen, isSummarizing, toasts, consoleErrors,
                   sumCalls, nextCall, lastHandler, teamChanges, dbDocs,
                   dbClock, callerEmail, subscriptionActive, remoteLog>>

\* [data, ...documents], `documents` being the handler's closure value
CreatedList(data, docs) == <<data>> \o docs

\* A catch block that also resets the dialog.
CreateFailedResettingDialog(c) ==
    /\ toasts' = toasts \cup
          {Toast(c.n, "Error creating document", c.err, "destructive")}
    /\ newDocTitle' = <<>>
    /\ newDocContent' = ""
    /\ isCreateDialogOpen' = FALSE
    /\ UNCHANGED documents

\* The catch block of createDocument (lines 105-111).
CreateFailed(c) ==
    /\ toasts' = toasts \cup
          {Toast(c.n, "Error creating document", c.err, "destructive")}
    /\ UNCHANGED <<documents, newDocTitle, newDocContent, isCreateDialogOpen>>

CreateDocumentSettle == \E c \in Settled("createDocument") :
    /\ calls' = calls \ {c}
    /\ IF c.st = "ok"
         THEN /\ documents' = CreatedList(c.data[1], c.docs)
              /\ newDocTitle' = <<>>
              /\ newDocContent' = ""
              /\ isCreateDialogOpen' = FALSE
              /\ toasts' = toasts \cup
                    {Toast(c.n, "Document created",
                           "Your document has been created successfully.", "default")}
         ELSE CreateFailed(c)
    /\ UNCHANGED <<appVars, keystrokes, teamId, dmMounted, integrations, isLoading,
                   editingDoc, isSummarizing, consoleErrors, sumCalls,
                   nextCall, lastHandler, teamChanges, dbDocs, dbClock,
                   callerEmail, subscriptionActive, remoteLog, remoteFailures>>

\* ---- edit mode (lines 345-391) ----
\* The card of editingDoc is rendered in edit mode.
EditRendered == ViewRendered /\ editingDoc.id \in Ids(documents)

\* An edit button that is never disabled.
EditAlwaysEnabled(d) == FALSE

\* disabled={(doc as any).is_integration}
EditDisabled(d) == d.is_integration

StartEdit == \E i \in DOMAIN documents :
    /\ ViewRendered
    /\ editingDoc.id # documents[i].id
    /\ ~EditDisabled(documents[i])
    /\ editingDoc' = documents[i]
    /\ UNCHANGED <<appVars, keystrokes, teamId, dmMounted, documents, integrations,
                   isLoading, newDocTitle, newDocContent, isCreateDialogOpen,
                   isSummarizing, toasts, consoleErrors, calls, sumCalls,
                   nextCall, lastHandler, teamChanges, dbDocs, dbClock,
                   callerEmail, subscriptionActive, remoteLog, remoteFailures>>

\* setEditingDoc({ ...editingDoc, title: e.target.value })
EditTitle == \E t \in Titles \ {editingDoc.title} :
    /\ EditRendered
    /\ editingDoc' = [editingDoc EXCEPT !.title = t]
    /\ keystrokes < MaxKeystrokes
    /\ keystrokes' = keystrokes + 1
    /\ UNCHANGED <<appVars, teamId, dmMounted, documents, integrations,
                   isLoading, newDocTitle, newDocContent, isCreateDialogOpen,
                   isSummarizing, toasts, consoleErrors, calls, sumCalls,
                   nextCall, lastHandler, teamChanges, dbDocs, dbClock,
                   callerEmail, subscriptionActive, remoteLog, remoteFailures>>

\* setEditingDoc({ ...editingDoc, content: e.target.value })
EditContent == \E x \in Contents \ {editingDoc.content} :
    /\ EditRendered
    /\ editingDoc' = [editingDoc EXCEPT !.content = x]
    /\ keystrokes < MaxKeystrokes
    /\ keystrokes' = keystrokes + 1
    /\ UNCHANGED <<appVars, teamId, dmMounted, documents, integrations,
                   isLoading, newDocTitle, newDocContent, isCreateDialogOpen,
                   isSummarizing, toasts, consoleErrors, calls, sumCalls,
                   nextCall, lastHandler, teamChanges, dbDocs, dbClock,
                   callerEmail, subscriptionActive, remoteLog, remoteFailures>>

CancelEdit ==
    /\ EditRendered
    /\ editingDoc' = NoDoc
    /\ UNCHANGED <<appVars, keystrokes, teamId, dmMounted, documents, integrations,
                   isLoading, newDocTitle, newDocContent, isCreateDialogOpen,
                   isSummarizing, toasts, consoleErrors, calls, sumCalls,
                   nextCall, lastHandler, teamChanges, dbDocs, dbClock,
                   callerEmail, subscriptionActive, remoteLog, remoteFailures>>

\* ---- updateDocument (lines 114-139) ----
\* Save: updateDocument(editingDoc)
UpdateDocument ==
    /\ EditRendered
    /\ UserInvocations < MaxCalls
    /\ nextCall' = nextCall + 1
    /\ lastHandler' = "updateDocument"
    /\ calls' = calls \cup {NewCall(nextCall + 1, "updateDocument", editingDoc, teamId)}
    /\ remoteLog' = remoteLog \cup {Remote(nextCall + 1, "documents.update")}
    /\ UNCHANGED <<appVars, keystrokes, teamId, dmMounted, documents, integrations,
                   isLoading, editingDoc, newDocTitle, newDocContent,
                   isCreateDialogOpen, isSummarizing, toasts, consoleErrors,
                   sumCalls, teamChanges, dbDocs, dbClock, callerEmail,
                   subscriptionActive, remoteFailures>>

\* .update({ title, content }).eq('id', doc.id): rows that do not match stay.
UpdateOk == \E c \in Pending("updateDocument") :
    /\ dbDocs' = { IF r.id = c.arg.id
                     THEN [r EXCEPT !.title = c.arg.title,
                                    !.content = c.arg.content,
                                    !.updated_at = dbClock + 1]
                     ELSE r : r \in dbDocs }
    /\ dbClock' = dbClock + 1
    /\ calls' = Resolve(c, <<>>)
    /\ UNCHANGED <<appVars, keystrokes, teamId, dmMounted, documents, integrations,
                   isLoading, editingDoc, newDocTitle, newDocContent,
                   isCreateDialogOpen, isSummarizing, toasts, consoleErrors,
                   sumCalls, nextCall, lastHandler, teamChanges, callerEmail,
                   subscriptionActive, remoteLog, remoteFailures>>

UpdateFail == \E c \in Pending("updateDocument") : \E e \in Errors :
    /\ calls' = Reject(c, e)
    /\ remoteFailures' = remoteFailures \cup {Failure(c.n, "documents.update", e)}
    /\ UNCHANGED <<appVars, keystrokes, teamId, dmMounted, documents, integrations,
                   isLoading, editingDoc, newDocTitle, newDocContent,
                   isCreateDialogOpen, isSummarizing, toasts, consoleErrors,
                   sumCalls, nextCall, lastHandler, teamChanges, dbDocs,
                   dbClock, callerEmail, subscriptionActive, remoteLog>>

\* documents.map(d => d.id === doc.id ? doc : d), `documents` being the
\* handler's closure value
UpdatedList(doc, docs) ==
    [i \in DOMAIN docs |-> IF docs[i].id = doc.id THEN doc ELSE docs[i]]

UpdateDocumentSettle == \E c \in Settled("updateDocument") :
    /\ calls' = calls \ {c}
    /\ IF c.st = "ok"
         THEN /\ documents' = UpdatedList(c.arg, c.docs)
              /\ editingDoc' = NoDoc
              /\ toasts' = toasts \cup
                    {Toast(c.n, "Document updated",
                           "Your document has been saved.", "default")}
         ELSE /\ toasts' = toasts \cup
                    {Toast(c.n, "Error updating document", c.err, "destructive")}
              /\ UNCHANGED <<documents, editingDoc>>
    /\ UNCHANGED <<appVars, keystrokes, teamId, dmMounted, integrations, isLoading,
                   newDocTitle, newDocContent, isCreateDialogOpen,
                   isSummarizing, consoleErrors, sumCalls, nextCall,
                   lastHandler, teamChanges, dbDocs, dbClock, callerEmail,
                   subscriptionActive, remoteLog, remoteFailures>>

\* ---- deleteDocument (lines 141-162) ----
\* The non-edit buttons of a card are rendered and the delete button enabled.
DeleteEnabled(d) ==
    ViewRendered /\ editingDoc.id # d.id /\ ~d.is_integration

DeleteDocument == \E i \in DOMAIN documents :
    /\ DeleteEnabled(documents[i])
    /\ UserInvocations < MaxCalls
    /\ nextCall' = nextCall + 1
    /\ lastHandler' = "deleteDocument"
    /\ calls' = calls \cup
          {NewCall(nextCall + 1, "deleteDocument", documents[i], teamId)}
    /\ remoteLog' = remoteLog \cup {Remote(nextCall + 1, "documents.delete")}
    /\ UNCHANGED <<appVars, keystrokes, teamId, dmMounted, documents, integrations,
                   isLoading, editingDoc, newDocTitle, newDocContent,
                   isCreateDialogOpen, isSummarizing, toasts, consoleErrors,
                   sumCalls, teamChanges, dbDocs, dbClock, callerEmail,
                   subscriptionActive, remoteFailures>>

\* .delete().eq('id', docId): deleting no row is no error.
DeleteOk == \E c \in Pending("deleteDocument") :
    /\ dbDocs' = {r \in dbDocs : r.id # c.arg.id}
    /\ calls' = Resolve(c, <<>>)
    /\ UNCHANGED <<appVars, keystrokes, teamId, dmMounted, documents, integrations,
                   isLoading, editingDoc, newDocTitle, newDocContent,
                   isCreateDialogOpen, isSummarizing, toasts, consoleErrors,
                   sumCalls, nextCall, lastHandler, teamChanges, dbClock,
                   callerEmail, subscriptionActive, remoteLog, remoteFailures>>

DeleteFail == \E c \in Pending("deleteDocument") : \E e \in Errors :
    /\ calls' = Reject(c, e)
    /\ remoteFailures' = remoteFailures \cup {Failure(c.n, "documents.delete", e)}
    /\ UNCHANGED <<appVars, keystrokes, teamId, dmMounted, documents, integrations,
                   isLoading, editingDoc, newDocTitle, newDocContent,
                   isCreateDialogOpen, isSummarizing, toasts, consoleErrors,
                   sumCalls, nextCall, lastHandler, teamChanges, dbDocs,
                   dbClock, callerEmail, subscriptionActive, remoteLog>>

\* documents.filter(d => d.id !== docId), `documents` being the handler's
\* closure value
DeletedList(docId, docs) ==
    LET keep(d) == d.id # docId IN SelectSeq(docs, keep)

DeleteDocumentSettle == \E c \in Settled("deleteDocument") :
    /\ calls' = calls \ {c}
    /\ IF c.st = "ok"
         THEN /\ documents' = DeletedList(c.arg.id, c.docs)
              /\ toasts' = toasts \cup
                    {Toast(c.n, "Document deleted",
                           "Your document has been deleted.", "default")}
         ELSE /\ toasts' = toasts \cup
                    {Toast(c.n, "Error deleting document", c.err, "destructive")}
              /\ UNCHANGED documents
    /\ UNCHANGED <<appVars, keystrokes, teamId, dmMounted, integrations, isLoading,
                   editingDoc, newDocTitle, newDocContent, isCreateDialogOpen,
                   isSummarizing, consoleErrors, sumCalls, nextCall,
                   lastHandler, teamChanges, dbDocs, dbClock, callerEmail,
                   subscriptionActive, remoteLog, remoteFailures>>

\* ---- generateSummary (lines 164-217) ----
NotSummarizing == 0                   \* isSummarizing === null

\* disabled={isSummarizing === doc.id || (doc as any).is_integration}
SummarizeDisabled(d) == isSummarizing = d.id \/ d.is_integration

At(pc) == {c \in sumCalls : c.pc = pc}
Advance(c, pc) == (sumCalls \ {c}) \cup {[c EXCEPT !.pc = pc]}

\* setIsSummarizing(doc.id); await supabase.auth.getUser()
GenerateSummary == \E i \in DOMAIN documents :
    /\ ViewRendered
    /\ editingDoc.id # documents[i].id
    /\ ~SummarizeDisabled(documents[i])
    /\ UserInvocations < MaxCalls
    /\ nextCall' = nextCall + 1
    /\ lastHandler' = "generateSummary"
    /\ isSummarizing' = documents[i].id
    /\ sumCalls' = sumCalls \cup
          {[n |-> nextCall + 1, doc |-> documents[i], pc |-> "getUser", email |-> ""]}
    /\ remoteLog' = remoteLog \cup {Remote(nextCall + 1, "auth.getUser")}
    /\ UNCHANGED <<appVars, keystrokes, teamId, dmMounted, documents, integrations,
                   isLoading, editingDoc, newDocTitle, newDocContent,
                   isCreateDialogOpen, toasts, consoleErrors, calls,
                   teamChanges, dbDocs, dbClock, callerEmail,
                   subscriptionActive, remoteFailures>>

\* getUser settles with the account (ok) or with user null (failed); then
\* .from('owner_privileges')...eq('email', user?.email || '') is issued.
GetUserSettle == \E c \in At("getUser") : \E ok \in BOOLEAN :
    /\ sumCalls' = (sumCalls \ {c}) \cup
          {[c EXCEPT !.pc = "ownerLookup",
                     !.email = IF ok THEN callerEmail ELSE ""]}
    /\ remoteLog' = remoteLog \cup {Remote(c.n, "owner_privileges.select")}
    /\ remoteFailures' = IF ok THEN remoteFailures
                         ELSE remoteFailures \cup {Failure(c.n, "auth.getUser", "denied")}
    /\ UNCHANGED <<appVars, keystrokes, teamId, dmMounted, documents, integrations,
                   isLoading, editingDoc, newDocTitle, newDocContent,
                   isCreateDialogOpen, isSummarizing, toasts, consoleErrors,
                   calls, nextCall, lastHandler, teamChanges, dbDocs, dbClock,
                   callerEmail, subscriptionActive>>

\* A gate that treats a missing answer as subscribed.
IsSubscribedByDefault(answered, subscribedFlag) == ~answered \/ subscribedFlag

\* subscriptionCheck?.subscribed
IsSubscribed(answered, subscribedFlag) == answered /\ subscribedFlag

\* const isOwner = !!ownerData; the lookup's error is not read.
IsOwner(answered, email) == answered /\ email \in OwnerEmails

\* A return that skips the reset.
FinishWithoutReset(c) ==
    /\ sumCalls' = sumCalls \ {c}
    /\ UNCHANGED isSummarizing

\* The finally block.
Finish(c) ==
    /\ sumCalls' = sumCalls \ {c}
    /\ isSummarizing' = NotSummarizing

\* The owner lookup settles; an owner goes straight to ai-summarize, anyone
\* else to check-subscription.
OwnerLookupSettle == \E c \in At("ownerLookup") : \E ok \in BOOLEAN :
    /\ remoteFailures' = IF ok THEN remoteFailures
                         ELSE remoteFailures \cup
                              {Failure(c.n, "owner_privileges.select", "denied")}
    /\ IF IsOwner(ok, c.email)
         THEN /\ sumCalls' = Advance(c, "summarize")
              /\ remoteLog' = remoteLog \cup {Remote(c.n, "ai-summarize")}
         ELSE /\ sumCalls' = Advance(c, "checkSubscription")
              /\ remoteLog' = remoteLog \cup {Remote(c.n, "check-subscription")}
    /\ UNCHANGED <<appVars, keystrokes, teamId, dmMounted, documents, integrations,
                   isLoading, editingDoc, newDocTitle, newDocContent,
                   isCreateDialogOpen, isSummarizing, toasts, consoleErrors,
                   calls, nextCall, lastHandler, teamChanges, dbDocs, dbClock,
                   callerEmail, subscriptionActive>>

\* check-subscription settles: upsell and return, or go on to ai-summarize.
CheckSubscriptionSettle == \E c \in At("checkSubscription") : \E ok \in BOOLEAN :
    /\ remoteFailures' = IF ok THEN remoteFailures
                         ELSE remoteFailures \cup
                              {Failure(c.n, "check-subscription", "denied")}
    /\ IF ~IsSubscribed(ok, subscriptionActive)
         THEN /\ toasts' = toasts \cup
                    {Toast(c.n, "AI Summary (Premium Feature)",
                           "Upgrade to Premium to access AI-powered document summaries.",
                           "default")}
              /\ Finish(c)
              /\ UNCHANGED remoteLog
         ELSE /\ sumCalls' = Advance(c, "summarize")
              /\ remoteLog' = remoteLog \cup {Remote(c.n, "ai-summarize")}
              /\ UNCHANGED <<toasts, isSummarizing>>
    /\ UNCHANGED <<appVars, keystrokes, teamId, dmMounted, documents, integrations,
                   isLoading, editingDoc, newDocTitle, newDocContent,
                   isCreateDialogOpen, consoleErrors, calls, nextCall,
                   lastHandler, teamChanges, dbDocs, dbClock, callerEmail,
                   subscriptionActive>>

\* The preview is summaryResponse.summary.substring(0, 150) + "..."; the
\* summary text itself is not modelled.
SummarizeOk == \E c \in At("summarize") :
    /\ toasts' = toasts \cup
          {Toast(c.n, "AI Summary Generated", "summary[0,150)...", "default")}
    /\ Finish(c)
    /\ UNCHANGED <<appVars, keystrokes, teamId, dmMounted, documents, integrations,
                   isLoading, editingDoc, newDocTitle, newDocContent,
                   isCreateDialogOpen, consoleErrors, calls, nextCall,
                   lastHandler, teamChanges, dbDocs, dbClock, callerEmail,
                   subscriptionActive, remoteLog, remoteFailures>>

SummarizeFail == \E c \in At("summarize") : \E e \in Errors :
    /\ remoteFailures' = remoteFailures \cup {Failure(c.n, "ai-summarize", e)}
    /\ toasts' = toasts \cup
          {Toast(c.n, "Error generating summary", e, "destructive")}
    /\ Finish(c)
    /\ UNCHANGED <<appVars, keystrokes, teamId, dmMounted, documents, integrations,
                   isLoading, editingDoc, newDocTitle, newDocContent,
                   isCreateDialogOpen, consoleErrors, calls, nextCall,
                   lastHandler, teamChanges, dbDocs, dbClock, callerEmail,
                   subscriptionActive, remoteLog>>

(***************************************************************************)
(* Specifications                                                          *)
(***************************************************************************)
\* AppContent after its first render, before its effect.
InitApp ==
    /\ appPhase = "init"
    /\ user = NULL
    /\ session = NoSession
    /\ appLoading = TRUE
    /\ subscribed = FALSE
    /\ unsubCount = 0
    /\ authEvents = <<>>
    /\ sessionPromise = [st |-> "none", val |-> NoSession]
    /\ authSteps = 0

\* DocumentManager after its first render (the useState initial values),
\* before its effect.
InitDM ==
    /\ dmMounted = FALSE
    /\ documents = <<>>
    /\ integrations = <<>>
    /\ isLoading = TRUE
    /\ editingDoc = NoDoc
    /\ newDocTitle = <<>>
    /\ newDocContent = ""
    /\ isCreateDialogOpen = FALSE
    /\ isSummarizing = NotSummarizing
    /\ toasts = {}
    /\ consoleErrors = {}
    /\ calls = {}
    /\ sumCalls = {}
    /\ nextCall = 0
    /\ lastHandler = "none"
    /\ teamChanges = 0
    /\ keystrokes = 0
    /\ dbDocs = InitialDocs
    /\ dbClock = Cardinality(InitialDocs)
    /\ remoteLog = {}
    /\ remoteFailures = {}

\* The environment: a stored session or none, the team of the page, the
\* account and its plan.
Init ==
    /\ InitApp
    /\ InitDM
    /\ authSession \in {NoSession, [user |-> "u1", token |-> 1]}
    /\ teamId \in {"t1", NoTeam}
    /\ callerEmail \in Emails
    /\ subscriptionActive \in BOOLEAN

\* The same with the environment of the other component held fixed.
InitAppOnly ==
    Init /\ teamId = "t1" /\ callerEmail = "member@x" /\ ~subscriptionActive
InitDocsOnly ==
    Init /\ authSession = NoSession /\ callerEmail = "member@x" /\ ~subscriptionActive
InitSummaryOnly ==
    Init /\ authSession = NoSession /\ teamId = "t1"

\* Loading, also after a change of team.
NextLoad ==
    \/ DMMount
    \/ TeamIdChange
    \/ SelectDocumentsOk
    \/ SelectDocumentsFail
    \/ LoadDocumentsSettle
    \/ SelectIntegrationsOk
    \/ SelectIntegrationsFail
    \/ LoadIntegrationsSettle

\* The create dialog on the loaded list.
NextCreate ==
    \/ DMMount
    \/ SelectDocumentsOk
    \/ SelectDocumentsFail
    \/ LoadDocumentsSettle
    \/ OpenCreateDialog
    \/ CloseCreateDialog
    \/ SetNewDocTitle
    \/ SetNewDocContent
    \/ CreateDocument
    \/ InsertOk
    \/ InsertFail
    \/ CreateDocumentSettle

\* Edit mode and the delete button on the loaded list.
NextEdit ==
    \/ DMMount
    \/ SelectDocumentsOk
    \/ SelectDocumentsFail
    \/ LoadDocumentsSettle
    \/ StartEdit
    \/ EditTitle
    \/ EditContent
    \/ CancelEdit
    \/ UpdateDocument
    \/ UpdateOk
    \/ UpdateFail
    \/ UpdateDocumentSettle
    \/ DeleteDocument
    \/ DeleteOk
    \/ DeleteFail
    \/ DeleteDocumentSettle

\* Create, update and delete together.
NextDocs == NextCreate \/ NextEdit

\* Summaries of the loaded documents.
NextSummarize ==
    \/ DMMount
    \/ SelectDocumentsOk
    \/ SelectDocumentsFail
    \/ LoadDocumentsSettle
    \/ GenerateSummary
    \/ GetUserSettle
    \/ OwnerLookupSettle
    \/ CheckSubscriptionSettle
    \/ SummarizeOk
    \/ SummarizeFail

\* The edit, delete and summarize controls of the cards, for an owner.
NextControls ==
    \/ NextSummarize
    \/ StartEdit
    \/ CancelEdit
    \/ UpdateDocument
    \/ UpdateOk
    \/ UpdateFail
    \/ UpdateDocumentSettle
    \/ DeleteDocument
    \/ DeleteOk
    \/ DeleteFail
    \/ DeleteDocumentSettle

InitControls == InitSummaryOnly /\ callerEmail = "owner@x" /\ ~subscriptionActive

SpecApp == InitAppOnly /\ [][NextApp]_vars
SpecControls == InitControls /\ [][NextControls]_vars
SpecLoad == InitDocsOnly /\ [][NextLoad]_vars
SpecCreate == InitDocsOnly /\ [][NextCreate]_vars
SpecEdit == InitDocsOnly /\ [][NextEdit]_vars
SpecDocs == InitDocsOnly /\ [][NextDocs]_vars
\* The same with the integrations loaded too.
NextSummary ==
    \/ NextSummarize
    \/ SelectIntegrationsOk
    \/ SelectIntegrationsFail
    \/ LoadIntegrationsSettle

SpecSummary == InitSummaryOnly /\ [][NextSummary]_vars

\* Remote calls settle: every request of generateSummary gets its answer.
FairSpecSummary ==
    /\ InitSummaryOnly /\ [][NextSummarize]_vars
    /\ WF_vars(GetUserSettle)
    /\ WF_vars(OwnerLookupSettle)
    /\ WF_vars(CheckSubscriptionSettle)
    /\ WF_vars(SummarizeOk \/ SummarizeFail)

\* Remote calls settle: every documents fetch gets its answer and the
\* answer is handled; a change of teamId is never forced.
FairSpecLoad ==
    /\ InitDocsOnly /\ [][NextLoad]_vars
    /\ WF_vars(SelectDocumentsOk \/ SelectDocumentsFail)
    /\ WF_vars(LoadDocumentsSettle)

(***************************************************************************)
(* Properties                                                              *)
(***************************************************************************)
\* Handler invocation numbers a run can use.
CallIds == 1..(MaxCalls + 2 * (1 + MaxTeamChanges))

\* Those of generateSummary when the effect has run once (it takes two).
SummaryCallIds == {n \in CallIds : 2 < n /\ n <= 2 + MaxCalls}

\* Handler invocation n has run to its end.
HasSettled(n) ==
    /\ \A c \in calls : c.n # n
    /\ \A c \in sumCalls : c.n # n

\* The remote functions invocation n has called.
Issued(n) == {r.fn : r \in {q \in remoteLog : q.n = n}}

\* A title that is empty or consists of whitespace only.
Blank(t) == \A i \in DOMAIN t : t[i] = " "

\* C1: when the insert of a createDocument call succeeds, the list afterwards
\* is the returned record followed by the list as it was immediately before,
\* and newDocTitle and newDocContent are empty, whatever else was in flight.
C1_CreatePrependsToCurrentList ==
    [][\A c \in calls :
          (c.op = "createDocument" /\ c.st = "ok" /\ c \notin calls')
          => /\ documents' = <<c.data[1]>> \o documents
             /\ newDocTitle' = <<>>
             /\ newDocContent' = ""]_vars

\* C2: a createDocument call made while newDocTitle is empty or
\* whitespace-only issues no remote insert and leaves isCreateDialogOpen, the
\* document list, newDocTitle and newDocContent unchanged (and the Create
\* button is disabled for such a title).
C2_BlankTitleCreatesNothing ==
    [][(nextCall' = nextCall + 1 /\ lastHandler' = "createDocument"
           /\ Blank(newDocTitle))
        => /\ UNCHANGED <<calls, remoteLog, isCreateDialogOpen, documents,
                          newDocTitle, newDocContent>>
           /\ CreateButtonDisabled]_vars

\* A createDocument call was made with a whitespace-only title: the dialog is
\* still open and no insert was ever issued.
C2_Witness ==
    /\ lastHandler = "createDocument"
    /\ UserInvocations >= 1
    /\ newDocTitle = <<" ">>
    /\ isCreateDialogOpen
    /\ \A r \in remoteLog : r.fn # "documents.insert"

\* C3: when updateDocument(doc) succeeds, the list keeps its length and its
\* identifiers in place, the entry of doc.id is doc and every other entry is
\* what it was immediately before, whatever else was in flight.
C3_UpdateReplacesOneEntry ==
    [][\A c \in calls :
          (c.op = "updateDocument" /\ c.st = "ok" /\ c \notin calls')
          => /\ Len(documents') = Len(documents)
             /\ \A i \in DOMAIN documents :
                   documents'[i] = IF documents[i].id = c.arg.id
                                     THEN c.arg ELSE documents[i]]_vars

\* C4: when deleteDocument(id) succeeds, the list afterwards is the list as
\* it was immediately before without the entry of that id, every other entry
\* kept in order (so deleting an id that is no longer listed changes
\* nothing), whatever else was in flight.
C4_DeleteRemovesOneEntry ==
    [][\A c \in calls :
          (c.op = "deleteDocument" /\ c.st = "ok" /\ c \notin calls')
          => LET keep(d) == d.id # c.arg.id
             IN documents' = SelectSeq(documents, keep)]_vars

\* C5: a generateSummary run of an account without owner-privilege record
\* whose check-subscription does not report subscribed (it reports
\* unsubscribed, or it fails) never invokes ai-summarize, and ends with the
\* upsell notification.
C5_NoSummaryWithoutEntitlement ==
    \A n \in CallIds :
        ( /\ "auth.getUser" \in Issued(n)
          /\ callerEmail \notin OwnerEmails
          /\ \/ ~subscriptionActive
             \/ \E f \in remoteFailures : f.n = n /\ f.fn = "check-subscription" )
        => /\ "ai-summarize" \notin Issued(n)
           /\ HasSettled(n) =>
                 \E t \in toasts : /\ t.n = n
                                   /\ t.title = "AI Summary (Premium Feature)"

\* A run of a subscribed non-owner whose check-subscription failed has ended
\* with the upsell notification.
C5_Witness ==
    /\ callerEmail \notin OwnerEmails
    /\ subscriptionActive
    /\ \E f \in remoteFailures :
          /\ f.fn = "check-subscription"
          /\ HasSettled(f.n)
          /\ \E t \in toasts : t.n = f.n /\ t.title = "AI Summary (Premium Feature)"

\* C6: after AppContent is unmounted no callback writes user, session or
\* isLoading, and the subscription is unsubscribed exactly once on unmount.
C6_NoWriteAfterUnmount ==
    [][ /\ appPhase = "unmounted" => UNCHANGED <<user, session, appLoading>>
        /\ appPhase' = "unmounted" => unsubCount' = 1 ]_vars

\* C7: every generateSummary call, on every path, ends with the summarize
\* state idle once its remote calls settle.
C7_SummarizeReturnsToIdle ==
    \A n \in SummaryCallIds :
        [](( \E c \in sumCalls : c.n = n )
            => <>( /\ \A c \in sumCalls : c.n # n
                   /\ isSummarizing = NotSummarizing ))

\* A generateSummary call has ended on the failure path of ai-summarize, and
\* the summarize state is idle.
C7_Witness ==
    /\ sumCalls = {}
    /\ isSummarizing = NotSummarizing
    /\ \E t \in toasts : t.title = "Error generating summary"

\* C8: every failed backend call of the document manager has, once its
\* handler has run to the end, raised an error notification that carries the
\* error's message.
C8_EveryFailureIsNotified ==
    \A f \in remoteFailures :
        HasSettled(f.n)
        => \E t \in toasts : /\ t.n = f.n
                             /\ t.variant = "destructive"
                             /\ t.description = f.msg

\* C9: with the routes rendered and user null, every gated path renders the
\* auth page; a gated page is rendered only with a non-null user.
C9_GatedRoutesNeedUser ==
    \A p \in GatedPaths :
        /\ (~appLoading /\ user = NULL) => Rendered(p) = "AuthPage"
        /\ Rendered(p) = GatedPage(p) => user # NULL

\* The routes are rendered for a visitor who signed in and out again.
C9_Witness ==
    /\ appPhase = "mounted"
    /\ ~appLoading
    /\ user = NULL
    /\ authSteps >= 2
    /\ authEvents = <<>>
    /\ authSession = NoSession

\* C10: when a documents fetch has failed, the list is empty once the fetch
\* has settled, also for a re-fetch after a change of teamId.
C10_FailedLoadLeavesListEmpty ==
    [][\A c \in calls :
          (c.op = "loadDocuments" /\ c.st = "err" /\ c \notin calls')
          => documents' = <<>>]_vars

\* The document handlers that have a remote call outstanding or an answer
\* not yet applied.
DocumentOps == {"loadDocuments", "createDocument", "updateDocument", "deleteDocument"}
DocumentCallInFlight == \E c \in calls : c.op \in DocumentOps

\* The identifiers of the rows stored at the backend.
StoredIds == {r.id : r \in dbDocs}

\* The time the row with this id was last written at the backend.
WrittenAt(id) == (CHOOSE r \in dbDocs : r.id = id).updated_at

\* C11: with no document call in flight, the local list is ordered
\* most-recently-written first: of two listed documents stored at the backend,
\* the one listed earlier was not written before the one listed later.
C11_ListOrderedByLastWrite ==
    ~DocumentCallInFlight
    => \A i, j \in DOMAIN documents :
          (/\ i < j
           /\ documents[i].id \in StoredIds
           /\ documents[j].id \in StoredIds)
          => WrittenAt(documents[i].id) >= WrittenAt(documents[j].id)

\* C12: the integration cards rendered are the loaded integrations of type
\* google_drive, notion or github, each once and in their loaded order; an
\* integration of another type is never rendered.
C12_RenderedIntegrationsAreTheSupported ==
    LET Supported(i) == i.integration_type \in {"google_drive", "notion", "github"}
        loaded == {k \in DOMAIN integrations : Supported(integrations[k])}
    IN  ViewRendered
        => /\ \A a \in DOMAIN IntegrationCards : Supported(IntegrationCards[a])
           /\ Range(IntegrationCards) = {integrations[k] : k \in loaded}
           /\ Len(IntegrationCards) = Cardinality(loaded)
           /\ \A a, b \in DOMAIN IntegrationCards :
                 a < b => \E i, j \in DOMAIN integrations :
                             /\ i < j
                             /\ integrations[i] = IntegrationCards[a]
                             /\ integrations[j] = IntegrationCards[b]

\* A team's three integrations are loaded, one of them of another type.
C12_Witness ==
    /\ ViewRendered
    /\ Len(integrations) = 3
    /\ \E k \in DOMAIN integrations : integrations[k].integration_type = "slack"
    /\ Len(IntegrationCards) = 2

\* A document of this id is flagged as integration-sourced.
IntegrationSourced(id) ==
    \E r \in dbDocs \cup Range(documents) : r.id = id /\ r.is_integration

\* C13: no update, delete or summarize call is issued for a document flagged
\* as integration-sourced and edit mode is never entered for one; an update
\* call is issued only for the document in edit mode, from its rendered card.
C13_NoRemoteCallForIntegrationDocuments ==
    /\ [](/\ ~IntegrationSourced(editingDoc.id)
          /\ \A c \in calls :
                c.op \in {"updateDocument", "deleteDocument"}
                => ~IntegrationSourced(c.arg.id)
          /\ \A c \in sumCalls : ~IntegrationSourced(c.doc.id))
    /\ [][\A c \in calls' :
             (c.op = "updateDocument" /\ \A b \in calls : b.n # c.n)
             => EditRendered /\ c.arg = editingDoc]_vars

\* An integration-sourced document is listed while an update and a summary of
\* other documents are under way.
C13_Witness ==
    /\ \E i \in DOMAIN documents : documents[i].is_integration
    /\ \E c \in calls : c.op = "updateDocument"
    /\ sumCalls # {}

\* C14: in every generateSummary call the owner lookup is issued before any
\* other gate; for a caller whose email has an owner-privilege record
\* check-subscription is never invoked and ai-summarize is invoked by the time
\* the call has ended; ai-summarize is invoked only for such a caller or after
\* check-subscription has reported an active subscription.
C14_OwnerLookupDecidesTheGate ==
    \A n \in CallIds :
        "auth.getUser" \in Issued(n)
        => /\ Issued(n) \cap {"check-subscription", "ai-summarize"} # {}
              => "owner_privileges.select" \in Issued(n)
           /\ callerEmail \in OwnerEmails
              => /\ "check-subscription" \notin Issued(n)
                 /\ HasSettled(n) => "ai-summarize" \in Issued(n)
           /\ "ai-summarize" \in Issued(n)
              => \/ callerEmail \in OwnerEmails
                 \/ /\ "check-subscription" \in Issued(n)
                    /\ subscriptionActive
                    /\ \A f \in remoteFailures :
                          ~(f.n = n /\ f.fn = "check-subscription")

\* A step in which the auth-state listener is called.
ListenerRuns ==
    /\ subscribed /\ authEvents # <<>>
    /\ authEvents' = Tail(authEvents)
    /\ UNCHANGED <<appPhase, authSteps>>

\* A step in which the continuation of getSession is called.
GetSessionResolves == sessionPromise.st = "read" /\ sessionPromise'.st = "done"

\* C15: the session observer's isLoading is true until the first call of the
\* listener or of the getSession continuation, false from that call on and
\* never true again; while it is true (in particular when getSession rejects
\* and no event arrives) every path renders the spinner and no route.
C15_LoadingEndsAtFirstCallback ==
    /\ [](/\ appPhase = "init" => appLoading
          /\ appLoading => sessionPromise.st # "done"
          /\ appLoading => \A p \in Paths : Rendered(p) = "LoadingSpinner")
    /\ [][/\ ~appLoading => ~appLoading'
          /\ (ListenerRuns \/ GetSessionResolves) => ~appLoading'
          /\ (appLoading /\ ~ListenerRuns /\ ~GetSessionResolves) => appLoading'
         ]_vars

\* getSession has rejected and the listener alone has ended the loading state.
C15_Witness ==
    /\ appPhase = "mounted"
    /\ sessionPromise.st = "rejected"
    /\ ~appLoading

\* C16: the step that handles a failed createDocument, updateDocument or
\* deleteDocument call leaves the list as it is and raises an error
\* notification with the failure's message; for a create it leaves the dialog
\* open or closed as it was with newDocTitle and newDocContent as they were,
\* for an update it leaves editingDoc as it was.
C16_FailedWriteKeepsListAndInteraction ==
    [][\A c \in calls :
          (/\ c.op \in {"createDocument", "updateDocument", "deleteDocument"}
           /\ c.st = "err"
           /\ c \notin calls')
          => /\ documents' = documents
             /\ \E t \in toasts' \ toasts : /\ t.n = c.n
                                            /\ t.variant = "destructive"
                                            /\ t.description = c.err
             /\ c.op = "createDocument"
                => UNCHANGED <<isCreateDialogOpen, newDocTitle, newDocContent>>
             /\ c.op = "updateDocument" => UNCHANGED editingDoc]_vars

\* A failed create has been handled with the dialog open and filled in, and a
\* failed update with its document still in edit mode.
C16_Witness ==
    /\ isCreateDialogOpen
    /\ ~Blank(newDocTitle)
    /\ newDocContent # ""
    /\ editingDoc # NoDoc
    /\ \E f \in remoteFailures : f.fn = "documents.insert" /\ HasSettled(f.n)
    /\ \E f \in remoteFailures : f.fn = "documents.update" /\ HasSettled(f.n)

\* C17: every document with a generateSummary call in flight is marked as
\* summarizing: its card shows the spinner and its summarize control is
\* disabled, whatever other summarizations have started or finished.
C17_InFlightSummaryIsMarked ==
    \A c \in sumCalls :
        /\ isSummarizing = c.doc.id
        /\ SummarizeDisabled(c.doc)

\* C18: once the fetch and every create, update and delete call issued have
\* succeeded and been handled, with none in flight, the identifiers in the
\* local list are those of the team's documents stored at the backend.
C18_NoLostUpdate ==
    (/\ dmMounted
     /\ ~isLoading
     /\ ~DocumentCallInFlight
     /\ remoteFailures = {})
    => Ids(documents) = {r.id : r \in {q \in dbDocs : q.team_id = teamId}}

\* C19: with no list fetch and no create call in flight, every document in
\* the local list belongs to the component's current teamId.
C19_ListIsOfCurrentTeam ==
    (\A c \in calls : c.op \notin {"loadDocuments", "createDocument"})
    => \A i \in DOMAIN documents : documents[i].team_id = teamId

\* C20: while the observer is mounted, once the getSession continuation has
\* run and every delivered listener event has been handled, session and user
\* are those of the most recent authentication-state transition.
C20_ObserverShowsLatestSession ==
    (/\ appPhase = "mounted"
     /\ sessionPromise.st = "done"
     /\ authEvents = <<>>)
    => /\ session = authSession
       /\ user = UserOf(authSession)

\* C21: once DocumentManager is mounted its isLoading flag eventually becomes
\* false, for every value of teamId including the empty string: the view does
\* not stay on the loading spinner forever.
C21_LoadingEventuallyEnds == dmMounted ~> ~isLoading

====
